---- MODULE Spec2Model ----
(***************************************************************************)
(* Model of scraper_cli (src/src/main.rs): one run of the command line     *)
(* tool, from the parsed arguments to the value main returns.              *)
(*                                                                         *)
(* A Rust string is a sequence of one-character strings, so that trim,     *)
(* split_whitespace, join and contains are computed character by           *)
(* character, as the standard library computes them.  Option<T> is a       *)
(* sequence of length at most one.                                         *)
(***************************************************************************)
EXTENDS Integers, Sequences, FiniteSets, TLC

VARIABLES
    args,           \* Args after Args::parse(): [all, url]
    pc,             \* position of main / fetch_website_data
    i,              \* index of the `for source in SOURCES` loop (1-based)
    requests,       \* history: every URL handed to reqwest::get, in order
    responses,      \* history: how every fetch ended, "ok" or "err", in order
    fetched,        \* history: the headlines every fetch_website_data call returned
    body,           \* `document`: the parsed body of the current fetch
    headlines,      \* what the last fetch_website_data returned under "headlines"
    all_headlines,  \* main's accumulator in --all mode
    calls,          \* history: the argument of every perform_sentiment_analysis call
    compound,       \* the analyzer's compound score of each headline it scored
    results,        \* sentiment_results
    stdout,         \* the lines printed so far
    result          \* what main returned: "running", "Ok" or the ScraperError variant

vars == <<args, pc, i, requests, responses, fetched, body, headlines, all_headlines,
          calls, compound, results, stdout, result>>

----------------------------------------------------------------------------
(* Option<T> *)

None == <<>>

Some(x) == <<x>>

----------------------------------------------------------------------------
(* String literals of the source *)

HTTPS_WWW ==
    <<"h","t","t","p","s",":","/","/","w","w","w",".">>

NYTIMES_COM ==
    <<"n","y","t","i","m","e","s",".","c","o","m">>

THEGUARDIAN_COM ==
    <<"t","h","e","g","u","a","r","d","i","a","n",".","c","o","m">>

BBC_COM ==
    <<"b","b","c",".","c","o","m">>

NATURE_COM ==
    <<"n","a","t","u","r","e",".","c","o","m">>

ECONOMIST_COM ==
    <<"e","c","o","n","o","m","i","s","t",".","c","o","m">>

SOURCES ==
    << HTTPS_WWW \o NYTIMES_COM,
       HTTPS_WWW \o THEGUARDIAN_COM,
       HTTPS_WWW \o BBC_COM,
       HTTPS_WWW \o NATURE_COM,
       HTTPS_WWW \o ECONOMIST_COM >>

CONNECTIONS_COMPANION ==
    <<"C","o","n","n","e","c","t","i","o","n","s"," ","C","o","m","p","a","n","i","o","n">>

SPELLING_BEE ==
    <<"S","p","e","l","l","i","n","g"," ","B","e","e">>

THE_CROSSWORD ==
    <<"T","h","e"," ","C","r","o","s","s","w","o","r","d">>

READ_FULL_EDITION ==
    <<"R","e","a","d"," ","f","u","l","l"," ","e","d","i","t","i","o","n">>

unwanted_headlines ==
    << CONNECTIONS_COMPANION, SPELLING_BEE, THE_CROSSWORD, READ_FULL_EDITION >>

CARD_HEADLINE ==
    <<"c","a","r","d","-","h","e","a","d","l","i","n","e">>

----------------------------------------------------------------------------
(* str methods *)

Range(s) == { s[k] : k \in 1..Len(s) }

\* char::is_whitespace, on the characters the model's strings are made of
IsWhitespace(c) == c \in {" ", "\t", "\n"}

RECURSIVE TrimStart(_)
TrimStart(s) ==
    IF s = <<>> THEN s
    ELSE IF IsWhitespace(Head(s)) THEN TrimStart(Tail(s))
    ELSE s

RECURSIVE TrimEnd(_)
TrimEnd(s) ==
    IF s = <<>> THEN s
    ELSE IF IsWhitespace(s[Len(s)]) THEN TrimEnd(SubSeq(s, 1, Len(s) - 1))
    ELSE s

\* str::trim
Trim(s) == TrimEnd(TrimStart(s))

\* str::split_whitespace: `rest` is scanned left to right, `word` is the
\* word being read and `acc` the words already yielded; empty words are
\* never yielded.
RECURSIVE SplitScan(_, _, _)
SplitScan(rest, word, acc) ==
    IF rest = <<>>
    THEN IF word = <<>> THEN acc ELSE Append(acc, word)
    ELSE IF IsWhitespace(Head(rest))
         THEN SplitScan(Tail(rest), <<>>,
                        IF word = <<>> THEN acc ELSE Append(acc, word))
         ELSE SplitScan(Tail(rest), Append(word, Head(rest)), acc)

split_whitespace(s) == SplitScan(s, <<>>, <<>>)

\* [&str]::join(sep)
RECURSIVE join(_, _)
join(parts, sep) ==
    IF parts = <<>> THEN <<>>
    ELSE IF Len(parts) = 1 THEN parts[1]
    ELSE parts[1] \o sep \o join(Tail(parts), sep)

\* str::contains(pat)
contains(s, pat) ==
    \E k \in 0..(Len(s) - Len(pat)) : SubSeq(s, k + 1, k + Len(pat)) = pat

\* Vec<&str>::contains
VecContains(v, x) == \E k \in 1..Len(v) : v[k] = x

----------------------------------------------------------------------------
(* The parsed document and the selectors *)

\* A parsed selector: a tag, an optional class, an optional attribute and
\* an optional value the attribute must have.
Sel(tag, class, attr, value) ==
    [tag |-> tag, class |-> class, attr |-> attr, value |-> value]

\* Selector::parse of the five selector texts of the source
SelNytimes == Sel("p", Some("indicate-hover"), None, None)

SelGuardian == Sel("a", Some("dcr-lv2v9o"), None, None)

SelBbc == Sel("h2", None, Some("data-testid"), Some(CARD_HEADLINE))

SelNature == Sel("a", Some("c-card__link"), None, None)

SelEconomist == Sel("a", None, Some("data-analytics"), None)

\* An element of the document: [tag, class (a set), attrs (a function from
\* attribute names to values), text (its descendant text nodes in order)].
Matches(sel, el) ==
    /\ el.tag = sel.tag
    /\ sel.class = None \/ sel.class[1] \in el.class
    /\ \/ sel.attr = None
       \/ /\ sel.attr[1] \in DOMAIN el.attrs
          /\ sel.value = None \/ el.attrs[sel.attr[1]] = sel.value[1]

\* Html::select: the matching elements in document order
RECURSIVE select(_, _)
select(document, sel) ==
    IF document = <<>> THEN <<>>
    ELSE (IF Matches(sel, Head(document)) THEN <<Head(document)>> ELSE <<>>)
         \o select(Tail(document), sel)

\* element.value().attr(name)
attr(el, name) ==
    IF name \in DOMAIN el.attrs THEN Some(el.attrs[name]) ELSE None

unwrap_or(opt, default) == IF opt = None THEN default ELSE opt[1]

----------------------------------------------------------------------------
(* fetch_website_data, after the fetch *)

ParseError == "ParseError"

RequestError == "RequestError"

\* what a failed Selector::parse is mapped to
SelectorCompileError == ParseError

Rule(sel, attribute) == [ok |-> TRUE, selector |-> sel, attribute |-> attribute]

\* the if / else-if chain over url.contains(..)
resolve(url) ==
    IF contains(url, NYTIMES_COM) THEN Rule(SelNytimes, None)
    ELSE IF contains(url, THEGUARDIAN_COM) THEN Rule(SelGuardian, Some("aria-label"))
    ELSE IF contains(url, BBC_COM) THEN Rule(SelBbc, None)
    ELSE IF contains(url, NATURE_COM) THEN Rule(SelNature, None)
    ELSE IF contains(url, ECONOMIST_COM) THEN Rule(SelEconomist, None)
    ELSE [ok |-> FALSE, err |-> ParseError]

\* candidate, were an element without the attribute to yield its text
candidate_text_fallback(el, attribute) ==
    IF attribute # None /\ attr(el, attribute[1]) # None
    THEN attr(el, attribute[1])[1]
    ELSE join(el.text, <<" ">>)

\* the string an element yields before it is trimmed
candidate(el, attribute) ==
    IF attribute # None
    THEN unwrap_or(attr(el, attribute[1]), <<>>)
    ELSE join(el.text, <<" ">>)

\* keep, were the denylist matched by containment
keep_substring(text) ==
    /\ Len(split_whitespace(text)) > 1
    /\ ~\E k \in 1..Len(unwanted_headlines) : contains(text, unwanted_headlines[k])

\* the closure's condition on the trimmed text
keep(text) ==
    /\ Len(split_whitespace(text)) > 1
    /\ ~VecContains(unwanted_headlines, text)

\* the filter_map closure: Some(text) or None
closure(el, attribute) ==
    LET text == Trim(candidate(el, attribute))
    IN  IF keep(text) THEN Some(text) ELSE None

\* filter_map, were a headline that occurs again later dropped
RECURSIVE filter_map_dedup(_, _)
filter_map_dedup(elements, attribute) ==
    IF elements = <<>> THEN <<>>
    ELSE LET rest == filter_map_dedup(Tail(elements), attribute)
             first == closure(Head(elements), attribute)
         IN  IF first # None /\ VecContains(rest, first[1]) THEN rest
             ELSE first \o rest

\* Iterator::filter_map(..).collect()
RECURSIVE filter_map(_, _)
filter_map(elements, attribute) ==
    IF elements = <<>> THEN <<>>
    ELSE closure(Head(elements), attribute) \o filter_map(Tail(elements), attribute)

extract(document, rule) ==
    filter_map(select(document, rule.selector), rule.attribute)

----------------------------------------------------------------------------
(* perform_sentiment_analysis and print_sentiment_results *)

\* The compound scores polarity_scores can return, in tenths: the scorer is
\* an external library, a function of the headline alone.
Scores == {-5, 0, 5}

\* the `for headline in headlines` loop: one result pushed per headline
RECURSIVE analysis_loop(_, _, _)
analysis_loop(hs, score, acc) ==
    IF hs = <<>> THEN acc
    ELSE analysis_loop(Tail(hs), score,
                       Append(acc, [headline |-> Head(hs),
                                    sentiment |-> score[Head(hs)]]))

perform_sentiment_analysis(hs, score) == analysis_loop(hs, score, <<>>)

\* Display of serde_json's Value::String: the text as a JSON string
RECURSIVE json_escape(_)
json_escape(s) ==
    IF s = <<>> THEN <<>>
    ELSE (CASE Head(s) = "\"" -> <<"\\", "\"">>
            [] Head(s) = "\\" -> <<"\\", "\\">>
            [] Head(s) = "\t" -> <<"\\", "t">>
            [] Head(s) = "\n" -> <<"\\", "n">>
            [] OTHER -> <<Head(s)>>) \o json_escape(Tail(s))

json_display(s) == <<"\"">> \o json_escape(s) \o <<"\"">>

\* .map(..).sum::<f64>(): the fold from 0.0, in tenths
RECURSIVE sum(_)
sum(rs) == IF rs = <<>> THEN 0 ELSE rs[1].sentiment + sum(Tail(rs))

Abs(n) == IF n < 0 THEN -n ELSE n

RECURSIVE GCD(_, _)
GCD(a, b) == IF b = 0 THEN a ELSE GCD(b, a % b)

\* NaN, the value of 0.0 / 0.0
NaN == <<0, 0>>

\* fdiv, were the division an integer division
fdiv_truncating(num, den) ==
    IF den = 0 THEN NaN ELSE <<num \div den, 1>>

\* f64 division of a sum (in tenths) by a length: the quotient as a fraction
\* in lowest terms, NaN for 0.0 / 0.0
fdiv(num, den) ==
    IF den = 0 THEN NaN
    ELSE LET g == GCD(Abs(num), den) IN <<num \div g, den \div g>>

\* the println! of one result
result_line(r) == <<"Headline", json_display(r.headline), "Sentiment", r.sentiment>>

RECURSIVE result_lines(_)
result_lines(rs) ==
    IF rs = <<>> THEN <<>> ELSE <<result_line(Head(rs))>> \o result_lines(Tail(rs))

average_sentiment(rs) == fdiv(sum(rs), Len(rs))

\* everything print_sentiment_results prints
print_sentiment_results(rs) ==
    result_lines(rs) \o << <<"Overall Sentiment", average_sentiment(rs)>> >>

----------------------------------------------------------------------------
(* The inputs of a run: the arguments and what the network answers *)

\* URLs given with --url besides the five sources: two that contain no known
\* domain, one that contains a known domain in its query, one that contains
\* two known domains.
URL_EXAMPLE ==
    <<"h","t","t","p","s",":","/","/","e","x","a","m","p","l","e",".","o","r","g">>

URL_NEAR_MISS ==
    HTTPS_WWW \o <<"n","y","t","i","m","e","s",".","c","o">>

URL_QUERY ==
    URL_EXAMPLE \o <<"/","?","r","=">> \o BBC_COM

URL_TWO ==
    HTTPS_WWW \o THEGUARDIAN_COM \o <<"/">> \o NYTIMES_COM

Urls == Range(SOURCES) \cup {URL_EXAMPLE, URL_NEAR_MISS, URL_QUERY, URL_TWO}

\* clap: exactly one of --url and --all
ArgsSet ==
    {[all |-> TRUE, url |-> None]} \cup {[all |-> FALSE, url |-> Some(u)] : u \in Urls}

El(tag, class, attrs, text) ==
    [tag |-> tag, class |-> class, attrs |-> attrs, text |-> text]

NoAttrs == <<>>

T_BIG_WIN ==
    <<"B","i","g"," ","W","i","n">>

T_OK ==
    <<"O","k">>

T_MARKET ==
    <<"M","a","r","k","e","t"," ","C","r","a","s","h">>

T_X ==
    <<"x">>

T_NOT_A_LABEL ==
    <<"N","o","t"," ","A"," ","L","a","b","e","l">>

T_BBC ==
    <<"B","B","C">>

T_NEWS ==
    <<"N","e","w","s"," ">>

T_CELL ==
    <<" ","C","e","l","l","\t","A","t","l","a","s"," ">>

\* The elements the pages of a run are made of
SiteElements ==
    { El("p", {"indicate-hover", "css-abc"}, NoAttrs, <<T_BIG_WIN>>),
      El("p", {"indicate-hover"}, NoAttrs, <<T_OK>>),
      El("p", {"other"}, NoAttrs, <<SPELLING_BEE>>),
      El("a", {"dcr-lv2v9o"}, "aria-label" :> T_MARKET, <<T_X>>),
      El("a", {"dcr-lv2v9o"}, NoAttrs, <<T_NOT_A_LABEL>>),
      El("h2", {}, "data-testid" :> CARD_HEADLINE, <<T_BBC, T_NEWS>>),
      El("a", {"c-card__link"}, "data-analytics" :> T_X, <<T_CELL>>) }

MaxElems == 2

SeqsUpTo(S, n) == UNION { [1..k -> S] : k \in 0..n }

Documents == SeqsUpTo(SiteElements, MaxElems)

----------------------------------------------------------------------------
(* main *)

Init ==
    /\ args \in ArgsSet
    /\ pc = "get"
    /\ i = 1
    /\ requests = <<>>
    /\ responses = <<>>
    /\ fetched = <<>>
    /\ body = <<>>
    /\ headlines = <<>>
    /\ all_headlines = <<>>
    /\ calls = <<>>
    /\ compound = <<>>
    /\ results = <<>>
    /\ stdout = <<>>
    /\ result = "running"

\* the url of the current fetch_website_data call
current_url == IF args.all THEN SOURCES[i] ELSE args.url[1]

\* `?`: main returns the error
Fail(err) ==
    /\ result' = err
    /\ pc' = "done"

\* GetOk, were the rule resolved before the request is sent
GetOk_ResolveFirst ==
    /\ pc = "get"
    /\ IF resolve(current_url).ok
       THEN /\ requests' = Append(requests, current_url)
            /\ pc' = "text"
            /\ UNCHANGED result
       ELSE /\ Fail(resolve(current_url).err)
            /\ UNCHANGED requests
    /\ UNCHANGED <<args, i, responses, fetched, body, headlines,
                   all_headlines, calls, compound, results, stdout>>

\* reqwest::get(url).await succeeds
GetOk ==
    /\ pc = "get"
    /\ requests' = Append(requests, current_url)
    /\ pc' = "text"
    /\ UNCHANGED <<args, i, responses, fetched, body, headlines,
                   all_headlines, calls, compound, results, stdout, result>>

\* reqwest::get(url).await fails
GetErr ==
    /\ pc = "get"
    /\ requests' = Append(requests, current_url)
    /\ responses' = Append(responses, "err")
    /\ Fail(RequestError)
    /\ UNCHANGED <<args, i, fetched, body, headlines, all_headlines, calls,
                   compound, results, stdout>>

\* response.text().await succeeds; Html::parse_document
TextOk ==
    /\ pc = "text"
    /\ \E document \in Documents : body' = document
    /\ responses' = Append(responses, "ok")
    /\ pc' = "resolve"
    /\ UNCHANGED <<args, i, requests, fetched, headlines, all_headlines,
                   calls, compound, results, stdout, result>>

\* TextErr, were a failed source skipped
TextErr_Skip ==
    /\ pc = "text"
    /\ responses' = Append(responses, "err")
    /\ headlines' = <<>>
    /\ fetched' = Append(fetched, <<>>)
    /\ pc' = "fetched"
    /\ UNCHANGED <<args, i, requests, body, all_headlines, calls, compound,
                   results, stdout, result>>

\* response.text().await fails
TextErr ==
    /\ pc = "text"
    /\ responses' = Append(responses, "err")
    /\ Fail(RequestError)
    /\ UNCHANGED <<args, i, requests, fetched, body, headlines,
                   all_headlines, calls, compound, results, stdout>>

\* the else branch of the site dispatch
ResolveErr ==
    /\ pc = "resolve"
    /\ ~resolve(current_url).ok
    /\ Fail(resolve(current_url).err)
    /\ UNCHANGED <<args, i, requests, responses, fetched, body, headlines,
                   all_headlines, calls, compound, results, stdout>>

\* the rest of fetch_website_data, up to Ok(data): select, filter_map
Extract ==
    /\ pc = "resolve"
    /\ resolve(current_url).ok
    /\ headlines' = extract(body, resolve(current_url))
    /\ fetched' = Append(fetched, headlines')
    /\ pc' = "fetched"
    /\ UNCHANGED <<args, i, requests, responses, body, all_headlines, calls,
                   compound, results, stdout, result>>

\* Extend, were the new headlines put in front
Extend_Prepend ==
    /\ pc = "fetched"
    /\ args.all
    /\ all_headlines' = headlines \o all_headlines
    /\ body' = <<>>
    /\ i' = IF i < Len(SOURCES) THEN i + 1 ELSE i
    /\ pc' = IF i < Len(SOURCES) THEN "get" ELSE "analyze"
    /\ UNCHANGED <<args, requests, responses, fetched, headlines, calls,
                   compound, results, stdout, result>>

\* --all: fetch_website_data returns (its document is dropped),
\* all_headlines.extend(..), and the loop goes on to the next source
Extend ==
    /\ pc = "fetched"
    /\ args.all
    /\ all_headlines' = all_headlines \o headlines
    /\ body' = <<>>
    /\ i' = IF i < Len(SOURCES) THEN i + 1 ELSE i
    /\ pc' = IF i < Len(SOURCES) THEN "get" ELSE "analyze"
    /\ UNCHANGED <<args, requests, responses, fetched, headlines, calls,
                   compound, results, stdout, result>>

\* UrlFetched, were the headlines printed and the sentiment stage left out
RECURSIVE headline_lines(_)
headline_lines(hs) ==
    IF hs = <<>> THEN <<>> ELSE << <<Head(hs)>> >> \o headline_lines(Tail(hs))

UrlFetched_HeadlinesOnly ==
    /\ pc = "fetched"
    /\ ~args.all
    /\ body' = <<>>
    /\ stdout' = stdout \o headline_lines(headlines)
    /\ result' = "Ok"
    /\ pc' = "done"
    /\ UNCHANGED <<args, i, requests, responses, fetched, headlines,
                   all_headlines, calls, compound, results>>

\* --url: fetch_website_data returns (its document is dropped) and
\* headlines_list is what it returned
UrlFetched ==
    /\ pc = "fetched"
    /\ ~args.all
    /\ body' = <<>>
    /\ pc' = "analyze"
    /\ UNCHANGED <<args, i, requests, responses, fetched, headlines,
                   all_headlines, calls, compound, results, stdout, result>>

\* the list main hands to perform_sentiment_analysis
analysis_input == IF args.all THEN all_headlines ELSE headlines

\* perform_sentiment_analysis(..)?: a new analyzer scores every headline
Analyze ==
    /\ pc = "analyze"
    /\ \E score \in [Range(analysis_input) -> Scores] :
          /\ compound' = score
          /\ results' = perform_sentiment_analysis(analysis_input, score)
    /\ calls' = Append(calls, analysis_input)
    /\ pc' = "print"
    /\ UNCHANGED <<args, i, requests, responses, fetched, body, headlines,
                   all_headlines, stdout, result>>

\* print_sentiment_results(&sentiment_results); Ok(())
PrintResults ==
    /\ pc = "print"
    /\ stdout' = stdout \o print_sentiment_results(results)
    /\ result' = "Ok"
    /\ pc' = "done"
    /\ UNCHANGED <<args, i, requests, responses, fetched, body, headlines,
                   all_headlines, calls, compound, results>>

Next ==
    \/ GetOk
    \/ GetErr
    \/ TextOk
    \/ TextErr
    \/ ResolveErr
    \/ Extract
    \/ Extend
    \/ UrlFetched
    \/ Analyze
    \/ PrintResults

Spec == Init /\ [][Next]_vars

\* the exit status of the process once main has returned
ExitCode == IF result = "Ok" THEN 0 ELSE 1

----------------------------------------------------------------------------
(* The extraction and the filter on their own: a single-URL run that has  *)
(* just read the body of a page, for pages made of arbitrary short strings *)

MaxLen == 3

FilterChars == {" ", "\t", "a", "b"}

ShortStrings == SeqsUpTo(FilterChars, MaxLen)

\* the denylist entries and their near misses
SpecialStrings ==
    Range(unwanted_headlines) \cup
    { <<" ", "\t">> \o SPELLING_BEE \o <<" ">>,
      THE_CROSSWORD \o <<"\t">>,
      <<" ">> \o READ_FULL_EDITION,
      SPELLING_BEE \o <<" ", "a">>,
      <<"a", " ">> \o THE_CROSSWORD,
      <<"S","p","e","l","l","i","n","g"," "," ","B","e","e">>,
      <<"S","p","e","l","l","i","n","g","\t","B","e","e">>,
      <<"s","p","e","l","l","i","n","g"," ","b","e","e">>,
      <<"S","p","e","l","l","i","n","g">>,
      <<"R","e","a","d"," ","f","u","l","l">> }

CandidateStrings == ShortStrings \cup SpecialStrings

T_A_B ==
    <<"a"," ","b">>

T_B_A ==
    <<" ","b"," ","a","\t">>

T_A ==
    <<"a">>

T_B ==
    <<"b">>

\* pages of one element whose candidate is any of the candidate strings
SingleDocuments ==
    { << El("p", {"indicate-hover"}, NoAttrs, <<c>>) >> : c \in CandidateStrings }
    \cup
    { << El("a", {"dcr-lv2v9o"}, "aria-label" :> c, <<T_A_B>>) >> : c \in CandidateStrings }

FilterElements ==
    { El("p", {"indicate-hover"}, NoAttrs, <<T_A_B>>),
      El("p", {"indicate-hover"}, "aria-label" :> T_B_A, <<T_A, T_B>>),
      El("p", {"indicate-hover", "x"}, NoAttrs, <<T_B_A>>),
      El("p", {"indicate-hover"}, NoAttrs, <<T_A>>),
      El("p", {"x"}, NoAttrs, <<T_A_B>>),
      El("a", {"dcr-lv2v9o"}, "aria-label" :> T_A_B, <<T_B_A>>),
      El("a", {"dcr-lv2v9o"}, NoAttrs, <<T_A_B>>),
      El("a", {"dcr-lv2v9o"}, "aria-label" :> T_B_A, <<>>),
      El("a", {"dcr-lv2v9o"}, "aria-label" :> SPELLING_BEE, <<T_A, T_B>>) }

MaxCands == 3

FilterDocuments == SingleDocuments \cup SeqsUpTo(FilterElements, MaxCands)

InitFilter ==
    /\ args \in {[all |-> FALSE, url |-> Some(SOURCES[k])] : k \in 1..2}
    /\ pc = "resolve"
    /\ i = 1
    /\ requests = <<args.url[1]>>
    /\ responses = <<"ok">>
    /\ fetched = <<>>
    /\ body \in FilterDocuments
    /\ headlines = <<>>
    /\ all_headlines = <<>>
    /\ calls = <<>>
    /\ compound = <<>>
    /\ results = <<>>
    /\ stdout = <<>>
    /\ result = "running"

NextFilter == Extract

SpecFilter == InitFilter /\ [][NextFilter]_vars

----------------------------------------------------------------------------
(* Notions the properties are stated with *)

\* the string without its leading and trailing whitespace
Trimmed(c) ==
    LET inked == { k \in 1..Len(c) : ~IsWhitespace(c[k]) }
    IN  IF inked = {} THEN <<>>
        ELSE SubSeq(c, CHOOSE k \in inked : \A j \in inked : k <= j,
                       CHOOSE k \in inked : \A j \in inked : j <= k)

\* the number of whitespace-delimited words: the places where a word starts
WordCount(t) ==
    Cardinality({ k \in 1..Len(t) :
                    /\ ~IsWhitespace(t[k])
                    /\ k = 1 \/ IsWhitespace(t[k - 1]) })

DenyList ==
    { CONNECTIONS_COMPANION, SPELLING_BEE, THE_CROSSWORD, READ_FULL_EDITION }

Survives(t) == WordCount(t) > 1 /\ t \notin DenyList

KnownDomains ==
    { NYTIMES_COM, THEGUARDIAN_COM, BBC_COM, NATURE_COM, ECONOMIST_COM }

IsInfix(d, u) ==
    \E a \in 1..Len(u) : \E b \in a..Len(u) : SubSeq(u, a, b) = d

NoKnownDomain(u) == \A d \in KnownDomains : ~IsInfix(d, u)

RECURSIVE Flatten(_)
Flatten(ss) == IF ss = <<>> THEN <<>> ELSE Head(ss) \o Flatten(Tail(ss))

IsPrefix(s, t) == Len(s) <= Len(t) /\ s = SubSeq(t, 1, Len(s))

Count(x, s) == Cardinality({ k \in 1..Len(s) : s[k] = x })

IsSubsequence(h, c) ==
    \E f \in [1..Len(h) -> 1..Len(c)] :
        /\ \A j, k \in 1..Len(h) : j < k => f[j] < f[k]
        /\ \A k \in 1..Len(h) : c[f[k]] = h[k]

\* the rule of the single-URL run, once it resolved
TheRule == resolve(args.url[1])

\* the elements of the page the rule's selector matches, in document order
Matched == SelectSeq(body, LAMBDA el : Matches(TheRule.selector, el))

\* the trimmed candidates of the matched elements
TrimmedCandidates ==
    [k \in 1..Len(Matched) |-> Trimmed(candidate(Matched[k], TheRule.attribute))]

Extracted == ~args.all /\ pc = "fetched"

HasOverallLine == \E k \in 1..Len(stdout) : stdout[k][1] = "Overall Sentiment"

----------------------------------------------------------------------------
(* C1: whenever the sentiment stage is run over an empty headline sequence, *)
(* the run ends in EmptyInputError with a non-zero exit and never prints an *)
(* Overall Sentiment value computed by dividing by zero.                    *)
C1_EmptyInputError ==
    (pc = "done" /\ calls # <<>> /\ calls[Len(calls)] = <<>>)
        => /\ result = "EmptyInputError"
           /\ ExitCode # 0
           /\ ~HasOverallLine

C2_Pre ==
    /\ Extracted
    /\ Len(body) = 1
    /\ Len(Matched) = 1
    /\ TheRule.attribute = None => Len(body[1].text) = 1

C2_Candidate ==
    IF TheRule.attribute = None THEN body[1].text[1]
    ELSE IF "aria-label" \in DOMAIN body[1].attrs THEN body[1].attrs["aria-label"]
    ELSE <<>>

(* C2: the filter applied to the one candidate C of a page returns the     *)
(* empty sequence iff trim(C) has at most one word or is one of the four   *)
(* denylist entries, and returns <<trim(C)>> otherwise.                    *)
C2_FilterOfOne ==
    C2_Pre =>
        LET t == Trimmed(C2_Candidate)
        IN  /\ headlines = <<>> <=> (WordCount(t) <= 1 \/ t \in DenyList)
            /\ headlines # <<>> => headlines = <<t>>

C2_Witness ==
    /\ C2_Pre
    /\ C2_Candidate # Trimmed(C2_Candidate)
    /\ Trimmed(C2_Candidate) = SPELLING_BEE
    /\ headlines = <<>>

(* C3: the filtered headlines are a subsequence of the trimmed candidates  *)
(* in the same relative order, and a surviving candidate that occurs k     *)
(* times among the candidates occurs k times in the result.                *)
C3_OrderAndMultiplicity ==
    Extracted =>
        /\ IsSubsequence(headlines, TrimmedCandidates)
        /\ \A t \in Range(TrimmedCandidates) :
              Survives(t) => Count(t, headlines) = Count(t, TrimmedCandidates)

C3_Witness ==
    /\ Extracted
    /\ Len(TrimmedCandidates) = 3
    /\ Len(headlines) = 2
    /\ headlines[1] = headlines[2]
    /\ TrimmedCandidates[2] # headlines[1]

(* C4: for a URL that contains none of the five known domains, rule        *)
(* resolution fails with UnsupportedSiteError, a kind distinct from the    *)
(* selector-compilation error and from the network error, and the run      *)
(* exits non-zero without producing headlines.                             *)
C4_UnsupportedSiteError ==
    (/\ ~args.all
     /\ NoKnownDomain(args.url[1])
     /\ responses = <<"ok">>
     /\ pc = "done")
        => /\ result = "UnsupportedSiteError"
           /\ result \notin {SelectorCompileError, RequestError}
           /\ ExitCode # 0
           /\ headlines = <<>>

(* C5: in --all mode the sources are fetched once each, in the order of    *)
(* the source list, each only after the previous one was fully processed;  *)
(* the sentiment stage runs once, after the last source, on the            *)
(* concatenation of the per-source headlines in source order.              *)
C5_SequentialConcatenation ==
    args.all =>
        /\ IsPrefix(requests, SOURCES)
        /\ pc = "get" =>
              /\ Len(requests) = i - 1
              /\ Len(fetched) = i - 1
              /\ all_headlines = Flatten(fetched)
        /\ calls # <<>> =>
              /\ Len(calls) = 1
              /\ requests = SOURCES
              /\ Len(fetched) = Len(SOURCES)
              /\ calls[1] = Flatten(fetched)
        /\ result = "Ok" => Len(calls) = 1

C5_Witness ==
    /\ args.all
    /\ result = "Ok"
    /\ \A k \in 1..Len(fetched) : fetched[k] # <<>>
    /\ \A j, k \in 1..3 : j # k => fetched[j] # fetched[k]

(* C6: in --all mode a failed fetch ends the run with that error and a     *)
(* non-zero exit: no later source is fetched, the fetch is not retried,    *)
(* the sentiment stage never runs and nothing is printed.                  *)
C6_FailFast ==
    (args.all /\ "err" \in Range(responses)) =>
        /\ result = RequestError
        /\ ExitCode # 0
        /\ IsPrefix(requests, SOURCES)
        /\ Len(responses) = Len(requests)
        /\ \A k \in 1..Len(responses) : responses[k] = "err" <=> k = Len(responses)
        /\ calls = <<>>
        /\ results = <<>>
        /\ stdout = <<>>
        /\ ~ENABLED Next

C6_Witness ==
    /\ args.all
    /\ responses = <<"ok", "ok", "err">>
    /\ Len(all_headlines) >= 2

RECURSIVE Total(_, _)
Total(hs, score) ==
    IF hs = <<>> THEN 0 ELSE score[Head(hs)] + Total(Tail(hs), score)

(* C7: for a non-empty headline sequence the results have its length, the  *)
(* i-th result carries the i-th headline with that headline's own score,   *)
(* and the overall value printed is the sum of the scores divided by the   *)
(* length.                                                                 *)
C7_ResultsAndMean ==
    (calls # <<>> /\ calls[1] # <<>>) =>
        LET hs == calls[1]
        IN  /\ Len(results) = Len(hs)
            /\ \A k \in 1..Len(hs) :
                  /\ results[k].headline = hs[k]
                  /\ results[k].sentiment = compound[hs[k]]
            /\ result = "Ok" =>
                  LET last == stdout[Len(stdout)]
                  IN  /\ last[1] = "Overall Sentiment"
                      /\ last[2][2] > 0
                      /\ last[2][1] * Len(hs) = last[2][2] * Total(hs, compound)

C7_Witness ==
    /\ result = "Ok"
    /\ Len(results) = 3
    /\ results[1].sentiment = 5
    /\ results[2].sentiment = -5
    /\ results[3].sentiment = 0
    /\ stdout[Len(stdout)] = <<"Overall Sentiment", <<0, 1>> >>

SentimentRequested == "sentiment" \in DOMAIN args

C9_AttributeSourced ==
    (Extracted /\ TheRule.attribute # None) =>
        LET a == TheRule.attribute[1]
            carriers == SelectSeq(Matched, LAMBDA el : a \in DOMAIN el.attrs)
            values == [k \in 1..Len(carriers) |-> Trimmed(carriers[k].attrs[a])]
        IN  headlines = SelectSeq(values, Survives)

C9_Witness ==
    /\ Extracted
    /\ TheRule.attribute = Some("aria-label")
    /\ Len(Matched) = 2
    /\ "aria-label" \notin DOMAIN Matched[1].attrs
    /\ Survives(Trimmed(join(Matched[1].text, <<" ">>)))
    /\ "aria-label" \in DOMAIN Matched[2].attrs
    /\ Survives(Trimmed(join(Matched[2].text, <<" ">>)))
    /\ headlines = <<Trimmed(Matched[2].attrs["aria-label"])>>
    /\ headlines[1] # Trimmed(join(Matched[2].text, <<" ">>))

(* C10: the rule is resolved only after the page was fetched and its body  *)
(* read: a run on a URL of no known domain issues exactly one GET before   *)
(* it fails as unsupported, and when the GET or the body read fails the    *)
(* run reports the network error and never reaches the resolution.         *)
C10_FetchBeforeResolve ==
    /\ pc = "resolve" =>
          /\ Len(responses) = Len(requests)
          /\ responses[Len(responses)] = "ok"
    /\ (~args.all /\ NoKnownDomain(args.url[1])) =>
          /\ result = ParseError =>
                (requests = <<args.url[1]>> /\ responses = <<"ok">>)
          /\ "err" \in Range(responses) =>
                (result = RequestError /\ pc = "done" /\ Len(requests) = 1)
          /\ pc = "done" => Len(requests) = 1

C10_Witness ==
    /\ ~args.all
    /\ NoKnownDomain(args.url[1])
    /\ result = ParseError
    /\ requests = <<args.url[1]>>

====
